---- MODULE Spec2Model ----
(***************************************************************************)
(* Model of the persistence-and-coordination core of src/main.py:          *)
(* generate_appid, atomic_write_file_with_vdf, load_shortcuts_binary,      *)
(* dump_shortcuts_binary, the Steam process coordinator and                *)
(* NonSteamGameAdder.add_non_steam_game.                                   *)
(*                                                                         *)
(* Python strings are sequences of code points, byte strings are sequences *)
(* of naturals below 256.  TLC integers are 32-bit signed, so an unsigned  *)
(* 32-bit word is a pair <<hi, lo>> of 16-bit halves.                      *)
(***************************************************************************)
EXTENDS Integers, Sequences, FiniteSets, TLC

\* ------------------------------------------------------------------------
\* Bounds of the model.
\* ------------------------------------------------------------------------
\* Longest executable path handed to generate_appid in SpecId.
MaxIdLen == 2

\* Most insertions into one document in SpecInsert.
MaxInserts == 11

\* Most add-operations in one behaviour of Spec.
MaxCalls == 2

\* ------------------------------------------------------------------------
\* 32-bit words as <<hi, lo>> and the bit operations generate_appid needs.
\* ------------------------------------------------------------------------
Half == 256 * 256

RECURSIVE XorN(_, _)
\* Bitwise XOR of two naturals.
XorN(a, b) ==
    IF a = 0 THEN b
    ELSE IF b = 0 THEN a
    ELSE (((a % 2) + (b % 2)) % 2) + (2 * XorN(a \div 2, b \div 2))

XorW(x, y) == <<XorN(x[1], y[1]), XorN(x[2], y[2])>>

\* Logical shift right by one bit.
ShrW(x) == <<x[1] \div 2, (x[2] \div 2) + ((x[1] % 2) * (Half \div 2))>>

\* x | 0x80000000
OrSignBit(x) ==
    <<IF x[1] >= (Half \div 2) THEN x[1] ELSE x[1] + (Half \div 2), x[2]>>

AllOnes == <<Half - 1, Half - 1>>

\* The reflected CRC-32 polynomial 0xEDB88320 of zlib.
CrcPoly == <<60856, 33568>>

RECURSIVE CrcBits(_, _)
\* k rounds of the bitwise CRC step on the register c.
CrcBits(c, k) ==
    CASE k = 0 -> c
      [] k > 0 /\ c[2] % 2 = 1 -> CrcBits(XorW(ShrW(c), CrcPoly), k - 1)
      [] OTHER -> CrcBits(ShrW(c), k - 1)

RECURSIVE CrcUpTo(_, _)
\* The CRC register after the first i bytes of bs.
CrcUpTo(bs, i) ==
    IF i = 0 THEN AllOnes
    ELSE LET prev == CrcUpTo(bs, i - 1)
         IN  CrcBits(<<prev[1], XorN(prev[2], bs[i])>>, 8)

\* zlib.crc32(bytes): initial register and final XOR are 0xFFFFFFFF.
Crc32(bs) == XorW(CrcUpTo(bs, Len(bs)), AllOnes)

\* ------------------------------------------------------------------------
\* str.encode("utf-8") and str(int).
\* ------------------------------------------------------------------------
\* The UTF-8 bytes of one code point.
Utf8Char(cp) ==
    IF cp < 128 THEN <<cp>>
    ELSE IF cp < 2048 THEN <<192 + (cp \div 64), 128 + (cp % 64)>>
    ELSE IF cp < 65536 THEN
        <<224 + (cp \div 4096), 128 + ((cp \div 64) % 64), 128 + (cp % 64)>>
    ELSE <<240 + (cp \div 262144), 128 + ((cp \div 4096) % 64),
           128 + ((cp \div 64) % 64), 128 + (cp % 64)>>

RECURSIVE Utf8(_)
Utf8(s) == IF s = <<>> THEN <<>> ELSE Utf8Char(Head(s)) \o Utf8(Tail(s))

\* Code point of the decimal digit d.
DigitChar(d) == 48 + d

RECURSIVE StrNat(_)
\* str(n) for a natural n that fits a machine integer.
StrNat(n) == IF n < 10 THEN <<DigitChar(n)>> ELSE StrNat(n \div 10) \o <<DigitChar(n % 10)>>

\* Quotient and remainder of the word x by ten (long division on the halves).
DivTen(x) ==
    LET mid == ((x[1] % 10) * Half) + x[2]
    IN  [q |-> <<x[1] \div 10, mid \div 10>>, r |-> mid % 10]

RECURSIVE StrW(_)
\* str(x) for an unsigned 32-bit word.
StrW(x) ==
    IF x[1] = 0 THEN StrNat(x[2])
    ELSE StrW(DivTen(x).q) \o <<DigitChar(DivTen(x).r)>>

\* ------------------------------------------------------------------------
\* generate_appid
\* ------------------------------------------------------------------------
\* Mutant: the two strings concatenated in the order of the parameters.
generate_appid_NameFirst(game_name, exe_path) ==
    StrW(OrSignBit(Crc32(Utf8(game_name \o exe_path))))

generate_appid(game_name, exe_path) ==
    LET unique == Utf8(exe_path \o game_name)
        legacy_id == OrSignBit(Crc32(unique))
    IN  StrW(legacy_id)


\* ------------------------------------------------------------------------
\* The catalogue document: the value tree vdf.binary_load returns and
\* vdf.binary_dump writes.  A value is a string, a 32-bit integer or a map;
\* a map is a Python dict, kept as the sequence of its items in insertion
\* order.
\* ------------------------------------------------------------------------
VStr(s) == [t |-> "str", s |-> s, i |-> 0, m |-> <<>>]

VInt(i) == [t |-> "int", s |-> <<>>, i |-> i, m |-> <<>>]

VMap(m) == [t |-> "map", s |-> <<>>, i |-> 0, m |-> m]

Item(k, v) == [k |-> k, v |-> v]

Keys(m) == {m[i].k : i \in DOMAIN m}

\* m[k] for a key of m.
Get(m, k) == m[CHOOSE i \in DOMAIN m : m[i].k = k].v

\* m.get(k, {}) where the default is the empty dict.
GetOrEmpty(m, k) == IF k \in Keys(m) THEN Get(m, k) ELSE VMap(<<>>)

\* m[k] = v: an existing key keeps its place, a new key goes last.
SetItem(m, k, v) ==
    IF k \in Keys(m)
    THEN [i \in DOMAIN m |-> IF m[i].k = k THEN Item(k, v) ELSE m[i]]
    ELSE Append(m, Item(k, v))

\* m.setdefault(k, {}) as it leaves m.
SetDefaultEmpty(m, k) == IF k \in Keys(m) THEN m ELSE Append(m, Item(k, VMap(<<>>)))

\* "shortcuts"
K_shortcuts == <<115, 104, 111, 114, 116, 99, 117, 116, 115>>

\* "appid"
K_appid == <<97, 112, 112, 105, 100>>

\* "appname"
K_appname == <<97, 112, 112, 110, 97, 109, 101>>

\* "exe"
K_exe == <<101, 120, 101>>

\* "StartDir"
K_StartDir == <<83, 116, 97, 114, 116, 68, 105, 114>>

\* "LaunchOptions"
K_LaunchOptions == <<76, 97, 117, 110, 99, 104, 79, 112, 116, 105, 111, 110, 115>>

\* "IsHidden"
K_IsHidden == <<73, 115, 72, 105, 100, 100, 101, 110>>

\* "AllowDesktopConfig"
K_AllowDesktopConfig == <<65, 108, 108, 111, 119, 68, 101, 115, 107, 116, 111, 112, 67, 111, 110, 102, 105, 103>>

\* "OpenVR"
K_OpenVR == <<79, 112, 101, 110, 86, 82>>

\* "Devkit"
K_Devkit == <<68, 101, 118, 107, 105, 116>>

\* "DevkitGameID"
K_DevkitGameID == <<68, 101, 118, 107, 105, 116, 71, 97, 109, 101, 73, 68>>

\* "LastPlayTime"
K_LastPlayTime == <<76, 97, 115, 116, 80, 108, 97, 121, 84, 105, 109, 101>>

\* "tags"
K_tags == <<116, 97, 103, 115>>

\* {"shortcuts": {}}
EmptyDoc == <<Item(K_shortcuts, VMap(<<>>))>>

\* ------------------------------------------------------------------------
\* Catalogue codec (vdf.binary_dump / vdf.binary_load).  The file is a
\* sequence of tokens in the order written: a type marker before each
\* item, the item's key, then its value (a string, an integer, or the items
\* of a nested map closed by the end marker); the document itself is closed
\* by one more end marker.
\* ------------------------------------------------------------------------
TMap == <<0>>

TStr == <<1>>

TInt == <<2>>

TEnd == <<8>>

RECURSIVE EncodeItems(_)
EncodeItems(m) ==
    IF m = <<>> THEN <<>>
    ELSE LET it == Head(m)
             enc == CASE it.v.t = "map" ->
                            <<TMap, it.k>> \o EncodeItems(it.v.m) \o <<TEnd>>
                      [] it.v.t = "str" -> <<TStr, it.k, it.v.s>>
                      [] OTHER -> <<TInt, it.k, <<it.v.i>>>>
         IN  enc \o EncodeItems(Tail(m))

Encode(doc) == EncodeItems(doc) \o <<TEnd>>

RECURSIVE ParseItems(_, _)
\* The items read from token pos on, up to the end marker that closes them:
\* [ok, m, pos] with pos the token after that marker.  Running out of tokens
\* before the end marker, or meeting an unknown type marker, is an error.
ParseItems(toks, pos) ==
    LET bad == [ok |-> FALSE, m |-> <<>>, pos |-> pos]
    IN  IF pos > Len(toks) THEN bad
        ELSE IF toks[pos] = TEnd THEN [ok |-> TRUE, m |-> <<>>, pos |-> pos + 1]
        ELSE IF toks[pos] = TMap THEN
            IF pos + 1 > Len(toks) THEN bad
            ELSE LET sub == ParseItems(toks, pos + 2)
                 IN  IF ~sub.ok THEN bad
                     ELSE LET rest == ParseItems(toks, sub.pos)
                          IN  IF ~rest.ok THEN bad
                              ELSE [ok |-> TRUE,
                                    m |-> <<Item(toks[pos + 1], VMap(sub.m))>> \o rest.m,
                                    pos |-> rest.pos]
        ELSE IF toks[pos] \in {TStr, TInt} THEN
            IF pos + 2 > Len(toks) THEN bad
            ELSE LET rest == ParseItems(toks, pos + 3)
                     val == IF toks[pos] = TStr THEN VStr(toks[pos + 2])
                            ELSE VInt(toks[pos + 2][1])
                 IN  IF ~rest.ok THEN bad
                     ELSE [ok |-> TRUE,
                           m |-> <<Item(toks[pos + 1], val)>> \o rest.m,
                           pos |-> rest.pos]
        ELSE bad

\* vdf.binary_load: the document, or an error for malformed content.
Decode(toks) == ParseItems(toks, 1)

\* ------------------------------------------------------------------------
\* The entry and the index assignment of add_non_steam_game.
\* ------------------------------------------------------------------------
\* f'"{text}"'
Quoted(text) == <<34>> \o text \o <<34>>

\* Lines 494-507.
Entry(app_id, game_name, exe, game_path, launch_options) ==
    << Item(K_appid, VStr(app_id)),
       Item(K_appname, VStr(game_name)),
       Item(K_exe, VStr(Quoted(exe))),
       Item(K_StartDir, VStr(Quoted(game_path))),
       Item(K_LaunchOptions, VStr(launch_options)),
       Item(K_IsHidden, VInt(0)),
       Item(K_AllowDesktopConfig, VInt(1)),
       Item(K_OpenVR, VInt(0)),
       Item(K_Devkit, VInt(0)),
       Item(K_DevkitGameID, VStr(<<>>)),
       Item(K_LastPlayTime, VInt(0)),
       Item(K_tags, VMap(<<>>)) >>

\* The "shortcuts" mapping of a document ({} when the key is missing).
Shortcuts(document) == GetOrEmpty(document, K_shortcuts).m

\* Mutant: the index is taken one past the count.
InsertShortcut_OffByOne(document, entry) ==
    LET idx == Len(Shortcuts(document)) + 1
        d == SetDefaultEmpty(document, K_shortcuts)
    IN  SetItem(d, K_shortcuts, VMap(SetItem(Get(d, K_shortcuts).m, StrNat(idx), VMap(entry))))

\* Lines 509-510: idx = len(shortcuts.get("shortcuts", {}));
\* shortcuts.setdefault("shortcuts", {})[str(idx)] = entry.
InsertShortcut(document, entry) ==
    LET idx == Len(Shortcuts(document))
        d == SetDefaultEmpty(document, K_shortcuts)
    IN  SetItem(d, K_shortcuts, VMap(SetItem(Get(d, K_shortcuts).m, StrNat(idx), VMap(entry))))

\* str(Path(exe).parent) for an absolute, normalised POSIX path.
RECURSIVE Parent(_)
Parent(path) ==
    IF Len(path) <= 1 THEN <<47>>
    ELSE IF path[Len(path)] = 47
         THEN (IF Len(path) = 1 THEN <<47>> ELSE SubSeq(path, 1, Len(path) - 1))
         ELSE Parent(SubSeq(path, 1, Len(path) - 1))

\* The entry add_non_steam_game builds for its arguments (lines 476-477,
\* 494-507).
EntryFor(exe, game_name, launch_options) ==
    Entry(generate_appid(game_name, exe), game_name, exe, Parent(exe), launch_options)

\* ------------------------------------------------------------------------
\* State.
\* ------------------------------------------------------------------------
VARIABLES
    gaCalls,    \* the calls of generate_appid made so far: [name, exe, id]
    rs,         \* restart_steam_if_running: its position and its locals
    calls,      \* the calls of stop_steam / start_steam made by the current run
    cmds,       \* the OS commands those calls attempted, in order
    doc,        \* the in-memory document ("shortcuts" in add_non_steam_game)
    inserted,   \* the entries inserted into doc so far, in order
    file,       \* the catalogue at its canonical path: [exists, data]
    backups,    \* the files of the backup directory, in the order of their
                \* timestamps: the content of each
    sameSecond, \* the clock still shows the second of the last backup's name
    tmp,        \* the temporary file of the current write: [exists, data]
    pc,         \* add_non_steam_game: where the operation stands
    arg,        \* its arguments: [exists (the executable), name]
    loaded,     \* the document as loaded, before the insertion
    pre,        \* the catalogue file as it was when the operation began
    err,        \* the exception the operation raised, "none" otherwise
    restarted,  \* the flag restart_steam_if_running returned
    h,          \* what the current operation has done so far
    copies,     \* how many backup copies (shutil.copy2) have succeeded
    nCalls,     \* how many operations have begun
    client      \* the Steam client: [running, wrote (the entries it wrote to
                \* the catalogue while an operation held a loaded document)]

idVars == <<gaCalls>>

coordVars == <<rs, calls, cmds>>

docVars == <<doc, inserted>>

fsVars == <<file, backups, tmp, copies>>

opVars == <<pc, arg, loaded, pre, err, restarted, h, nCalls>>

clientVars == <<client>>

vars == <<gaCalls, rs, calls, cmds, doc, inserted, file, backups, sameSecond, tmp,
          pc, arg, loaded, pre, err, restarted, h, copies, nCalls, client>>

InitIdVars == gaCalls = <<>>

\* No client process, nothing written by one.
InitClientVars == client = [running |-> FALSE, wrote |-> {}]

InitDocVars == doc = EmptyDoc /\ inserted = <<>>

Absent == [exists |-> FALSE, data |-> <<>>]

FileOf(data) == [exists |-> TRUE, data |-> data]

\* Nothing done yet: the document not loaded, no insertion, the restart
\* coordination not run, no backup step, no temporary file, the signature
\* of vdf.binary_dump not met, the writer not run (n: the tokens it wrote).
HNone == [load |-> "none", ins |-> FALSE, rst |-> "none", bk |-> "none",
          temp |-> FALSE, sig |-> "none", wr |-> "none", n |-> 0]

InitOpVars ==
    /\ pc = "idle" /\ arg = [exists |-> FALSE, name |-> <<>>]
    /\ loaded = <<>> /\ err = "none" /\ restarted = FALSE /\ h = HNone
    /\ nCalls = 0 /\ pre = file

\* No catalogue and no backup.
InitFsQuiet ==
    /\ file = Absent /\ backups = <<>> /\ sameSecond = FALSE /\ tmp = Absent
    /\ copies = 0

\* ------------------------------------------------------------------------
\* Process coordinator: detect_steam_variant, is_steam_running, stop_steam,
\* start_steam, restart_steam_if_running.
\* ------------------------------------------------------------------------
Variants == {"windows", "linux_flatpak", "linux_native", "darwin_native", "unknown"}

\* The commands stop_steam runs for a variant, in order.
StopCommands(variant) ==
    CASE variant = "windows" -> <<"taskkill /IM steam.exe /F">>
      [] variant = "linux_flatpak" ->
            <<"flatpak kill com.valvesoftware.Steam", "pkill -f steam">>
      [] variant \in {"linux_native", "darwin_native"} -> <<"pkill -f steam">>
      [] OTHER -> <<>>

Range(s) == {s[i] : i \in DOMAIN s}

\* stop_steam(variant) where subprocess.run raises at the command number
\* failAt (0: no command raises).  The command that raises is the last one
\* attempted and ends the function with False; an unknown variant attempts
\* nothing and gives False.
stop_steam(variant, failAt) ==
    LET all == StopCommands(variant)
        raised == failAt \in 1..Len(all)
    IN  [cmds |-> IF raised THEN SubSeq(all, 1, failAt) ELSE all,
         ok   |-> (variant # "unknown") /\ ~raised]

\* The launch candidates start_steam knows for a variant, in the order of
\* the code.
StartCandidates(variant) ==
    CASE variant = "windows" ->
            <<"C:/Program Files (x86)/Steam/Steam.exe",
              "C:/Program Files/Steam/Steam.exe",
              "C:/Program Files (x86)/Steam/steam.exe",
              "start steam://open">>
      [] variant = "linux_flatpak" -> <<"flatpak run com.valvesoftware.Steam">>
      [] variant = "linux_native" ->
            <<"steam", "steamcmd", "~/.local/share/Steam/steam.sh">>
      [] variant = "darwin_native" -> <<"open -a Steam">>
      [] OTHER -> <<>>

\* Candidates launched without a check that they exist (p.exists(),
\* shutil.which): the shell fallback and the fixed commands.
Unprobed == {"start steam://open", "flatpak run com.valvesoftware.Steam",
             "open -a Steam"}

\* The candidates start_steam looks for before launching them.
ProbedCandidates(variant) == Range(StartCandidates(variant)) \ Unprobed

\* Whether a candidate is found on this host: present is the set of probed
\* candidates that exist.
Found(c, present) == c \in Unprobed \/ c \in present

\* start_steam(variant) on a host where the probed candidates in present
\* exist and subprocess.Popen succeeds exactly for those in launchable.
\* In every branch the first candidate found is launched; if Popen raises
\* the except clause returns False, otherwise True is returned; when no
\* candidate is found the function falls through to return False.
start_steam(variant, present, launchable) ==
    LET cands == StartCandidates(variant)
        found == {i \in 1..Len(cands) : Found(cands[i], present)}
    IN  IF found = {}
        THEN [tried |-> <<>>, ok |-> FALSE]
        ELSE LET first == CHOOSE i \in found : \A j \in found : i <= j
             IN  [tried |-> <<cands[first]>>,
                  ok |-> cands[first] \in launchable]

\* str.strip() and str.lower() on a string of code points.
IsSpace(c) == c \in {9, 10, 13, 32}

RECURSIVE LStrip(_)
LStrip(s) == IF s # <<>> /\ IsSpace(Head(s)) THEN LStrip(Tail(s)) ELSE s

RECURSIVE RStrip(_)
RStrip(s) ==
    IF s # <<>> /\ IsSpace(s[Len(s)]) THEN RStrip(SubSeq(s, 1, Len(s) - 1)) ELSE s

Strip(s) == RStrip(LStrip(s))

Lower(s) == [i \in 1..Len(s) |-> IF s[i] \in 65..90 THEN s[i] + 32 ELSE s[i]]

\* ("y", "yes")
YesAnswers == {<<121>>, <<121, 101, 115>>}

\* What the user may type at the prompt: "y", "Yes ", "n", "".
TypedAnswers == {<<121>>, <<89, 101, 115, 32>>, <<110>>, <<>>}

RsIdle ==
    [pc |-> "idle", variant |-> "unknown", running |-> FALSE, prompt |-> FALSE,
     allow |-> FALSE, asked |-> FALSE, ans |-> <<>>, stopped |-> FALSE,
     present |-> {}, tried |-> <<>>, started |-> FALSE, performed |-> FALSE]

InitCoordVars == rs = RsIdle /\ calls = <<>> /\ cmds = <<>>

\* The prompted user did not answer y or yes.
Declined(r) == r.asked /\ r.ans \notin YesAnswers

\* Mutant: allow_restart is not consulted.
RestartProceeds_IgnoreAllow(running, allow, asked, ans) ==
    running /\ ~(asked /\ ans \notin YesAnswers)

\* Lines 314-322: whether restart_steam_if_running goes on to stop and start.
RestartProceeds(running, allow, asked, ans) ==
    /\ running
    /\ allow
    /\ ~(asked /\ ans \notin YesAnswers)

\* restart_steam_if_running up to its decision: the variant and the running
\* probe are what the host reports; the prompt is shown only when
\* prompt_before_restart is set and stdin is a terminal.
RestartBegin(prompt_before_restart, allow_restart) ==
    /\ rs.pc = "idle"
    /\ \E variant \in Variants, running \in BOOLEAN, isatty \in BOOLEAN,
          typed \in TypedAnswers :
          LET asked == running /\ allow_restart /\ prompt_before_restart /\ isatty
              ans == IF asked THEN Lower(Strip(typed)) ELSE <<>>
          IN  rs' = [RsIdle EXCEPT
                      !.pc = IF RestartProceeds(running, allow_restart, asked, ans)
                             THEN "stop" ELSE "done",
                      !.variant = variant, !.running = running,
                      !.prompt = prompt_before_restart,
                      !.allow = allow_restart, !.asked = asked, !.ans = ans]
    /\ calls' = <<>>
    /\ cmds' = <<>>
    /\ UNCHANGED sameSecond

\* Line 324: stopped = stop_steam(variant).
RestartStop ==
    /\ rs.pc = "stop"
    /\ \E failAt \in 0..Len(StopCommands(rs.variant)) :
          LET r == stop_steam(rs.variant, failAt)
          IN  /\ rs' = [rs EXCEPT !.pc = "sleep", !.stopped = r.ok]
              /\ cmds' = cmds \o r.cmds
    /\ calls' = Append(calls, "stop")
    /\ UNCHANGED sameSecond

\* Mutant: start_steam follows stop_steam without the delay.
RestartSleep_NoDelay ==
    /\ rs.pc = "sleep"
    /\ rs' = [rs EXCEPT !.pc = "start"]
    /\ UNCHANGED <<calls, cmds, sameSecond>>

\* Line 325: time.sleep(1.5), the settle delay; the clock moves on.
RestartSleep ==
    /\ rs.pc = "sleep"
    /\ rs' = [rs EXCEPT !.pc = "start"]
    /\ calls' = Append(calls, "sleep")
    /\ sameSecond' = FALSE
    /\ UNCHANGED cmds

\* Lines 327-329: started = start_steam(variant); performed = stopped or started.
RestartStart ==
    /\ rs.pc = "start"
    /\ \E present \in SUBSET ProbedCandidates(rs.variant),
          launchable \in SUBSET Range(StartCandidates(rs.variant)) :
          LET r == start_steam(rs.variant, present, launchable)
          IN  /\ rs' = [rs EXCEPT !.pc = "done", !.present = present,
                                  !.tried = r.tried, !.started = r.ok,
                                  !.performed = rs.stopped \/ r.ok]
              /\ cmds' = cmds \o r.tried
    /\ calls' = Append(calls, "start")
    /\ UNCHANGED sameSecond

\* The caller takes the returned (variant, performed).
RestartReturn ==
    /\ rs.pc = "done"
    /\ rs' = [rs EXCEPT !.pc = "idle"]
    /\ UNCHANGED <<calls, cmds, sameSecond>>

\* ------------------------------------------------------------------------
\* SpecCoord: restart_steam_if_running called with any arguments.
\* ------------------------------------------------------------------------
\* The state in which nothing has been called yet.
InitQuiet ==
    /\ InitIdVars /\ InitCoordVars /\ InitDocVars /\ InitFsQuiet /\ InitOpVars
    /\ InitClientVars

CoordCall ==
    /\ \E prompt \in BOOLEAN, allow \in BOOLEAN : RestartBegin(prompt, allow)
    /\ UNCHANGED <<idVars, clientVars, docVars, fsVars, opVars>>

CoordStop == RestartStop /\ UNCHANGED <<idVars, clientVars, docVars, fsVars, opVars>>

CoordSleep == RestartSleep /\ UNCHANGED <<idVars, clientVars, docVars, fsVars, opVars>>

CoordStart == RestartStart /\ UNCHANGED <<idVars, clientVars, docVars, fsVars, opVars>>

CoordReturn == RestartReturn /\ UNCHANGED <<idVars, clientVars, docVars, fsVars, opVars>>

NextCoord == CoordCall \/ CoordStop \/ CoordSleep \/ CoordStart \/ CoordReturn

SpecCoord == InitQuiet /\ [][NextCoord]_vars

\* C6: without a running client, without permission to restart, or after
\* the prompted user declined, restart_steam_if_running calls neither
\* stop_steam nor start_steam, attempts no command and returns
\* performed = False; calls and commands occur only when the client was
\* reported running, restart was allowed and nobody declined.
C6_CoordinatorNoOp ==
    /\ (~rs.running \/ ~rs.allow \/ Declined(rs))
          => (calls = <<>> /\ cmds = <<>> /\ ~rs.performed
              /\ rs.pc \in {"idle", "done"})
    /\ (calls # <<>> \/ cmds # <<>> \/ rs.pc \in {"stop", "sleep", "start"})
          => (rs.running /\ rs.allow /\ ~Declined(rs))

\* The client runs and restart is allowed, the user is asked and declines:
\* the call has returned without a stop or a start.
C6_Witness ==
    /\ rs.pc = "done"
    /\ rs.running /\ rs.allow /\ rs.asked /\ rs.ans = <<110>>
    /\ calls = <<>> /\ cmds = <<>> /\ ~rs.performed

\* C7: when start_steam returns False, every launch candidate of the variant
\* was either launched (and failed) or not found on the host.
C7_StartTriesEveryCandidate ==
    (rs.pc = "done" /\ "start" \in Range(calls) /\ ~rs.started)
        => \A c \in Range(StartCandidates(rs.variant)) :
              c \in Range(rs.tried) \/ ~Found(c, rs.present)

\* ------------------------------------------------------------------------
\* SpecId: generate_appid called on bounded inputs.
\* ------------------------------------------------------------------------
\* Code points the inputs are drawn from: "/" and the two-byte U+00E9.
IdAlphabet == {47, 233}

StringsUpTo(n) == UNION {[1..k -> IdAlphabet] : k \in 0..n}

GaExePaths == StringsUpTo(MaxIdLen)

GaNames == StringsUpTo(1)

\* One call generate_appid(game_name, exe_path), its result recorded.  Two
\* calls are made, so that the results of any two inputs can be compared.
GenerateAppidCall ==
    /\ Len(gaCalls) < 2
    /\ \E name \in GaNames, exe \in GaExePaths :
          gaCalls' = Append(gaCalls,
                            [name |-> name, exe |-> exe,
                             id |-> generate_appid(name, exe)])
    /\ UNCHANGED <<clientVars, coordVars, docVars, fsVars, sameSecond, opVars>>

NextId == GenerateAppidCall

SpecId == InitQuiet /\ [][NextId]_vars

\* Reading a decimal string back as a 32-bit word.
MulTenAdd(x, d) ==
    LET lo == (x[2] * 10) + d
    IN  <<(x[1] * 10) + (lo \div Half), lo % Half>>

RECURSIVE ParseW(_, _)
\* The word written by the first n characters of the decimal string s.
ParseW(s, n) ==
    IF n = 0 THEN <<0, 0>> ELSE MulTenAdd(ParseW(s, n - 1), s[n] - 48)

IsDecimal(s) == Len(s) >= 1 /\ \A i \in 1..Len(s) : s[i] \in 48..57

\* C10: generate_appid depends on its inputs only through exe_path followed
\* by game_name; every id is the decimal string, without sign or leading zero,
\* of crc32(utf8(exe_path + game_name)) with bit 31 set, hence a value in
\* 2147483648..4294967295.
C10_AppidIsCrcOfConcatWithSignBit ==
    \A i \in 1..Len(gaCalls) :
        LET c == gaCalls[i]
            w == ParseW(c.id, Len(c.id))
            crc == Crc32(Utf8(c.exe \o c.name))
        IN  /\ IsDecimal(c.id)
            /\ Len(c.id) = 10
            /\ c.id[1] # 48
            /\ w[1] >= Half \div 2
            /\ w[1] < Half
            /\ w[1] - (Half \div 2) = crc[1] % (Half \div 2)
            /\ w[2] = crc[2]
            /\ \A j \in 1..Len(gaCalls) :
                  (gaCalls[j].exe \o gaCalls[j].name = c.exe \o c.name)
                      => gaCalls[j].id = c.id

\* Two calls that split the same text "/é" differently between path and
\* name; the id is the one zlib gives: str(crc32(b"/\xc3\xa9") | 0x80000000).
C10_Witness ==
    /\ Len(gaCalls) = 2
    /\ gaCalls[1].exe = <<47, 233>> /\ gaCalls[1].name = <<>>
    /\ gaCalls[2].exe = <<47>> /\ gaCalls[2].name = <<233>>
    /\ gaCalls[2].id = <<50, 50, 48, 55, 48, 55, 52, 48, 54, 50>>

\* ------------------------------------------------------------------------
\* SpecInsert: the index assignment applied again and again to a document
\* that starts as {"shortcuts": {}}.
\* ------------------------------------------------------------------------
\* "/g/x"
ExePath == <<47, 103, 47, 120>>

\* "F", "B"
GameNames == {<<70>>, <<66>>}

InsertEntry ==
    /\ Len(inserted) < MaxInserts
    /\ \E name \in GameNames :
          LET entry == EntryFor(ExePath, name, <<>>)
          IN  /\ doc' = InsertShortcut(doc, entry)
              /\ inserted' = Append(inserted, entry)
    /\ UNCHANGED <<idVars, clientVars, coordVars, fsVars, sameSecond, opVars>>

NextInsert == InsertEntry

SpecInsert == InitQuiet /\ [][NextInsert]_vars

RECURSIVE DecimalValue(_, _)
\* The number written by the first n characters of the decimal string s.
DecimalValue(s, n) ==
    IF n = 0 THEN 0 ELSE (DecimalValue(s, n - 1) * 10) + (s[n] - 48)

\* A decimal string as str() writes it: digits only, no leading zero.
IsCanonicalDecimal(s) == IsDecimal(s) /\ (Len(s) > 1 => s[1] # 48)

\* C8: after k insertions into the empty document the "shortcuts" mapping
\* has exactly k items; the i-th item is the i-th inserted entry and its key
\* is the decimal string of i-1, so the keys are "0".."k-1"; equal entries
\* are kept as separate items.
C8_ContiguousIndexing ==
    LET sc == Shortcuts(doc)
    IN  /\ Keys(doc) = {K_shortcuts}
        /\ Len(sc) = Len(inserted)
        /\ \A i \in 1..Len(sc) :
              /\ IsCanonicalDecimal(sc[i].k)
              /\ DecimalValue(sc[i].k, Len(sc[i].k)) = i - 1
              /\ sc[i].v = VMap(inserted[i])

\* Eleven insertions, the first two of the same entry: the last key is "10".
C8_Witness ==
    /\ Len(inserted) = 11
    /\ inserted[1] = inserted[2]
    /\ Shortcuts(doc)[11].k = <<49, 48>>
    /\ Shortcuts(doc)[1].k = <<48>>
    /\ Shortcuts(doc)[2].k = <<49>>

\* ------------------------------------------------------------------------
\* load_shortcuts_binary, dump_shortcuts_binary, atomic_write_file_with_vdf
\* and add_non_steam_game, step by step.
\* ------------------------------------------------------------------------
\* load_shortcuts_binary(path): [ok, doc]; ok = FALSE when it raises, which
\* it does when the file cannot be read (readFails) or is malformed.
load_shortcuts_binary(f, readFails) ==
    IF ~f.exists THEN [ok |-> TRUE, doc |-> EmptyDoc]
    ELSE IF readFails \/ ~Decode(f.data).ok THEN [ok |-> FALSE, doc |-> <<>>]
    ELSE [ok |-> TRUE, doc |-> SetDefaultEmpty(Decode(f.data).m, K_shortcuts)]

\* Line 467-474: the call; a missing executable raises FileNotFoundError.
AddCall ==
    /\ pc = "idle"
    /\ nCalls < MaxCalls
    /\ \E exists \in BOOLEAN, name \in GameNames :
          /\ arg' = [exists |-> exists, name |-> name]
          /\ pc' = IF exists THEN "images" ELSE "raised"
          /\ err' = IF exists THEN "none" ELSE "FileNotFoundError"
    /\ nCalls' = nCalls + 1
    /\ pre' = file
    /\ UNCHANGED <<idVars, clientVars, coordVars, docVars, fsVars, sameSecond, loaded,
                   restarted, h>>

\* Lines 476-485: the id and the artwork.  Search and download failures
\* are absorbed; creating the grid folder may raise.
AddImages ==
    /\ pc = "images"
    /\ \/ pc' = "load" /\ err' = err
       \/ pc' = "raised" /\ err' = "OSError(grid)"
    /\ UNCHANGED <<idVars, clientVars, coordVars, docVars, fsVars, sameSecond, arg, loaded, pre,
                   restarted, h, nCalls>>

\* Lines 487-492: load the catalogue; on any exception start from
\* {"shortcuts": {}}.
AddLoad ==
    /\ pc = "load"
    /\ \E readFails \in BOOLEAN :
          LET r == load_shortcuts_binary(file, readFails)
          IN  /\ (readFails => file.exists)
              /\ doc' = IF r.ok THEN r.doc ELSE EmptyDoc
              /\ loaded' = doc'
              /\ h' = [h EXCEPT !.load = IF ~file.exists THEN "absent"
                                         ELSE IF r.ok THEN "ok" ELSE "failed"]
    /\ pc' = "insert"
    /\ UNCHANGED <<idVars, clientVars, coordVars, inserted, fsVars, sameSecond, arg, pre, err,
                   restarted, nCalls>>

\* Lines 494-510: build the entry and store it under str(len(...)).
AddInsert ==
    /\ pc = "insert"
    /\ doc' = InsertShortcut(doc, EntryFor(ExePath, arg.name, <<>>))
    /\ h' = [h EXCEPT !.ins = TRUE]
    /\ pc' = "restart"
    /\ UNCHANGED <<idVars, clientVars, coordVars, inserted, fsVars, sameSecond, arg, loaded, pre,
                   err, restarted, nCalls>>

\* Line 513: restart_steam_if_running(prompt_before_restart=False,
\* allow_restart=True), then its steps.
AddRestartCall ==
    /\ pc = "restart"
    /\ RestartBegin(FALSE, TRUE)
    /\ pc' = "restarting"
    /\ UNCHANGED <<idVars, clientVars, docVars, fsVars, arg, loaded, pre, err, restarted, h, nCalls>>

AddRestartStop ==
    /\ pc = "restarting"
    /\ RestartStop
    /\ UNCHANGED <<idVars, clientVars, docVars, fsVars, opVars>>

AddRestartSleep ==
    /\ pc = "restarting"
    /\ RestartSleep
    /\ UNCHANGED <<idVars, clientVars, docVars, fsVars, opVars>>

\* Lines 327-329: start_steam and performed, inside the call of line 513.
AddRestartStart ==
    /\ pc = "restarting"
    /\ RestartStart
    /\ UNCHANGED <<idVars, clientVars, docVars, fsVars, opVars>>

\* Lines 513-516: restart_steam_if_running returned (variant, restarted);
\* after a restart, time.sleep(2.0).  The coordinator's locals are gone.
AddAfterRestart ==
    /\ pc = "restarting"
    /\ rs.pc = "done"
    /\ restarted' = rs.performed
    /\ sameSecond' = IF rs.performed THEN FALSE ELSE sameSecond
    /\ rs' = RsIdle
    /\ calls' = <<>> /\ cmds' = <<>>
    /\ h' = [h EXCEPT !.rst = IF calls = <<>> THEN "noop" ELSE "cycled"]
    /\ pc' = "aw_mkdir"
    /\ UNCHANGED <<idVars, clientVars, docVars, fsVars, arg, loaded, pre, err, nCalls>>

\* Line 122: path.parent.mkdir(parents=True, exist_ok=True).  It can raise
\* only when the directory is not there, hence only without a catalogue.
AwMkdirParent ==
    /\ pc = "aw_mkdir"
    /\ \/ pc' = "aw_backup" /\ err' = err
       \/ ~file.exists /\ pc' = "raised" /\ err' = "OSError(mkdir)"
    /\ UNCHANGED <<idVars, clientVars, coordVars, docVars, fsVars, sameSecond, arg, loaded, pre,
                   restarted, h, nCalls>>

\* The backup directory after shutil.copy2(path, backup_path): the name
\* carries the clock's second, so a copy made in the second of the last
\* backup has that backup's name and replaces it.
BackupsAfterCopy(bs, same, data) ==
    IF same /\ bs # <<>> THEN [bs EXCEPT ![Len(bs)] = data] ELSE Append(bs, data)

\* Lines 123-132: the backup step.  backup_dir.mkdir is outside the try
\* and raises to the caller; a failing copy2 is logged and ignored (it is
\* taken to fail before the backup file is created).
AwBackup ==
    /\ pc = "aw_backup"
    /\ \/ /\ ~file.exists
          /\ h' = [h EXCEPT !.bk = "skipped"]
          /\ pc' = "aw_temp"
          /\ UNCHANGED <<backups, sameSecond, copies, err>>
       \/ /\ file.exists
          /\ h' = [h EXCEPT !.bk = "mkdir_failed"]
          /\ pc' = "raised"
          /\ err' = "OSError(backup_dir)"
          /\ UNCHANGED <<backups, sameSecond, copies>>
       \/ /\ file.exists
          /\ h' = [h EXCEPT !.bk = "copy_failed"]
          /\ pc' = "aw_temp"
          /\ UNCHANGED <<backups, sameSecond, copies, err>>
       \/ /\ file.exists
          /\ h' = [h EXCEPT !.bk = "copied"]
          /\ backups' = BackupsAfterCopy(backups, sameSecond, file.data)
          /\ sameSecond' = TRUE
          /\ copies' = copies + 1
          /\ pc' = "aw_temp"
          /\ UNCHANGED err
    /\ UNCHANGED <<idVars, clientVars, coordVars, docVars, file, tmp, arg, loaded, pre,
                   restarted, nCalls>>

\* The wall clock reaches the next second.
Tick ==
    /\ sameSecond
    /\ sameSecond' = FALSE
    /\ UNCHANGED <<idVars, clientVars, coordVars, docVars, fsVars, opVars>>

\* Lines 135-136: an empty temporary file of a fresh name beside the
\* catalogue; creating it may raise.
AwTemp ==
    /\ pc = "aw_temp"
    /\ \/ /\ tmp' = FileOf(<<>>)
          /\ h' = [h EXCEPT !.temp = TRUE]
          /\ pc' = "aw_open"
          /\ UNCHANGED err
       \/ /\ pc' = "raised"
          /\ err' = "OSError(tempfile)"
          /\ UNCHANGED <<tmp, h>>
    /\ UNCHANGED <<idVars, clientVars, coordVars, docVars, file, backups, copies,
                   sameSecond, arg, loaded, pre, restarted, nCalls>>

\* Line 138: tmp_path.open("wb"); a failure is handled like a failure of
\* the writer.
AwOpen ==
    /\ pc = "aw_open"
    /\ \/ pc' = "w_first" /\ h' = h
       \/ pc' = "aw_cleanup" /\ h' = [h EXCEPT !.wr = "raised"]
    /\ UNCHANGED <<idVars, clientVars, coordVars, docVars, fsVars, sameSecond, arg, loaded, pre,
                   err, restarted, nCalls>>

\* Where an encoder may stop: it raises after n of the total tokens, or
\* writes them all.
WriteLens(total) == {0, 1, total - 1, total} \cap 0..total

\* Mutant: the failure of the second attempt is logged and not raised.
SecondAttemptOutcome_Swallowed(n, total) == "ok"

\* Lines 184-189: the fallback returns when the dump completed and
\* re-raises otherwise.
SecondAttemptOutcome(n, total) == IF n = total THEN "ok" ELSE "raised"

\* Lines 175-181: vdf.binary_dump(fp, shortcuts_obj).  The installed library
\* takes (obj, fp), as vdf does, and rejects the file object as a document
\* before writing; or it takes (fp, obj), writes, and may fail part way.
\* Either failure is logged and the fallback follows on the same file
\* object.
WriterFirst ==
    /\ pc = "w_first"
    /\ LET enc == Encode(doc)
       IN  \/ /\ h' = [h EXCEPT !.sig = "obj_fp"]
              /\ pc' = "w_second"
              /\ UNCHANGED tmp
           \/ \E n \in WriteLens(Len(enc)) :
                 /\ tmp' = FileOf(tmp.data \o SubSeq(enc, 1, n))
                 /\ h' = [h EXCEPT !.sig = "fp_obj", !.n = h.n + n,
                                   !.wr = IF n = Len(enc) THEN "ok" ELSE h.wr]
                 /\ pc' = IF n = Len(enc) THEN "aw_replace" ELSE "w_second"
    /\ UNCHANGED <<idVars, clientVars, coordVars, docVars, file, backups, copies,
                   sameSecond, arg, loaded, pre, err, restarted, nCalls>>

\* Lines 183-189: vdf.binary_dump(shortcuts_obj, fp) on the same file
\* object, neither truncated nor rewound.
WriterSecond ==
    /\ pc = "w_second"
    /\ LET enc == Encode(doc)
       IN  \/ /\ h.sig = "obj_fp"
              /\ \E n \in WriteLens(Len(enc)) :
                    /\ tmp' = FileOf(tmp.data \o SubSeq(enc, 1, n))
                    /\ h' = [h EXCEPT !.n = h.n + n,
                                      !.wr = SecondAttemptOutcome(n, Len(enc))]
                    /\ pc' = IF SecondAttemptOutcome(n, Len(enc)) = "ok"
                             THEN "aw_replace" ELSE "aw_cleanup"
           \/ /\ h.sig = "fp_obj"
              /\ h' = [h EXCEPT !.wr = "raised"]
              /\ pc' = "aw_cleanup"
              /\ UNCHANGED tmp
    /\ UNCHANGED <<idVars, clientVars, coordVars, docVars, file, backups, copies,
                   sameSecond, arg, loaded, pre, err, restarted, nCalls>>

\* Mutant: the handler removes nothing and does not re-raise.
AwCleanup_NoRaise ==
    /\ pc = "aw_cleanup"
    /\ pc' = "aw_replace"
    /\ UNCHANGED <<idVars, clientVars, coordVars, docVars, fsVars, sameSecond, arg, loaded, pre,
                   err, restarted, h, nCalls>>

\* Lines 140-146: the writer raised: unlink the temporary file (a failing
\* unlink is ignored and leaves it) and re-raise.
AwCleanup ==
    /\ pc = "aw_cleanup"
    /\ tmp' \in {Absent, tmp}
    /\ pc' = "raised"
    /\ err' = "WriteError"
    /\ UNCHANGED <<idVars, clientVars, coordVars, docVars, file, backups, copies,
                   sameSecond, arg, loaded, pre, restarted, h, nCalls>>

\* Mutant: the rename happens although the call raises.
AwReplace_RaiseAfterRename ==
    /\ pc = "aw_replace"
    /\ file' = FileOf(tmp.data) /\ tmp' = Absent
    /\ \/ pc' = "done" /\ err' = err
       \/ pc' = "raised" /\ err' = "OSError(replace)"
    /\ UNCHANGED <<idVars, clientVars, coordVars, docVars, backups, copies, sameSecond,
                   arg, loaded, pre, restarted, h, nCalls>>

\* Line 147: tmp_path.replace(path): the catalogue becomes the temporary
\* file in one step, or the call raises and leaves both files.
AwReplace ==
    /\ pc = "aw_replace"
    /\ \/ /\ file' = FileOf(tmp.data) /\ tmp' = Absent
          /\ pc' = "done" /\ err' = err
       \/ /\ pc' = "raised" /\ err' = "OSError(replace)"
          /\ UNCHANGED <<file, tmp>>
    /\ UNCHANGED <<idVars, clientVars, coordVars, docVars, backups, copies, sameSecond,
                   arg, loaded, pre, restarted, h, nCalls>>

\* The caller has the result (lines 520-521) or the exception; the locals
\* of the operation are gone.  A temporary file left behind keeps its own
\* name and is not looked at again.
AddReturn ==
    /\ pc \in {"done", "raised"}
    /\ pc' = "idle"
    /\ arg' = [exists |-> FALSE, name |-> <<>>]
    /\ doc' = EmptyDoc /\ loaded' = <<>> /\ err' = "none" /\ restarted' = FALSE
    /\ h' = HNone /\ tmp' = Absent /\ pre' = file
    /\ calls' = <<>> /\ cmds' = <<>>
    /\ UNCHANGED <<idVars, clientVars, rs, inserted, file, backups, copies, sameSecond, nCalls>>

\* "/g/o", "O": an entry written to the catalogue earlier.
OldEntry == EntryFor(<<47, 103, 47, 111>>, <<79>>, <<>>)

\* A document whose "shortcuts" mapping holds OldEntry under each key.
DocOf(keys) ==
    <<Item(K_shortcuts, VMap([i \in 1..Len(keys) |-> Item(keys[i], VMap(OldEntry))]))>>

\* The catalogue files the operation may find: none; an empty catalogue;
\* one entry under "0"; one entry under "1" (entry "0" was removed); a
\* truncated catalogue; a document without the "shortcuts" key.
InitialFiles ==
    { Absent,
      FileOf(Encode(EmptyDoc)),
      FileOf(Encode(DocOf(<<<<48>>>>))),
      FileOf(Encode(DocOf(<<<<49>>>>))),
      FileOf(SubSeq(Encode(DocOf(<<<<48>>>>)), 1, 7)),
      FileOf(Encode(<<>>)) }

Init ==
    /\ InitIdVars /\ InitCoordVars /\ InitDocVars
    /\ file \in InitialFiles
    /\ backups = <<>> /\ sameSecond = FALSE /\ tmp = Absent /\ copies = 0
    /\ InitOpVars
    /\ InitClientVars

Next ==
    \/ AddCall \/ AddImages \/ AddLoad \/ AddInsert
    \/ AddRestartCall \/ AddRestartStop \/ AddRestartSleep \/ AddRestartStart
    \/ AddAfterRestart
    \/ AwMkdirParent \/ AwBackup \/ Tick \/ AwTemp \/ AwOpen
    \/ WriterFirst \/ WriterSecond \/ AwCleanup \/ AwReplace
    \/ AddReturn

Spec == Init /\ [][Next]_vars

\* C1: once the writer has raised, the call does not go on to the replace:
\* it ends by raising the writer's error, and the catalogue file holds what
\* it held when the call began.
C1_AtomicUnderWriterFailure ==
    h.wr = "raised"
        => /\ file = pre
           /\ pc \in {"aw_cleanup", "raised"}
           /\ (pc = "raised" => err = "WriteError")

\* An existing catalogue, a writer that raised after writing tokens to the
\* temporary file, the call ended by raising.
C1_Witness ==
    /\ pc = "raised" /\ err = "WriteError"
    /\ h.wr = "raised" /\ h.n > 0
    /\ pre.exists /\ file = pre

\* C2: at every step of an operation the catalogue file is either what it
\* was when the operation began or, once the replace is done, exactly the
\* complete encoding of the document by an attempt that succeeded.
C2_NoPartialCatalogue ==
    \/ file = pre
    \/ /\ pc = "done"
       /\ h.wr = "ok"
       /\ file = FileOf(Encode(doc))

\* The first attempt failed, the fallback wrote the document, and the
\* replace put it in the place of an existing catalogue.
C2_Witness ==
    /\ pc = "done"
    /\ h.sig = "obj_fp" /\ h.wr = "ok"
    /\ pre.exists /\ file # pre
    /\ file = FileOf(Encode(doc))

\* C3: an operation that ended by raising left the catalogue file as it
\* found it; an operation given a missing executable raises
\* FileNotFoundError at once: nothing loaded, no backup step, no temporary
\* file, no call of the restart coordination, no stop or start.
C3_AbortLeavesCatalogue ==
    /\ pc = "raised" => file = pre
    /\ (pc # "idle" /\ ~arg.exists)
          => (pc = "raised" /\ err = "FileNotFoundError")
    /\ (pc = "raised" /\ err = "FileNotFoundError")
          => (h = HNone /\ tmp = Absent /\ rs = RsIdle /\ calls = <<>> /\ cmds = <<>>)

\* Everything was written to the temporary file and the final replace
\* failed: the operation raised and the existing catalogue is untouched.
C3_Witness ==
    /\ pc = "raised" /\ err = "OSError(replace)"
    /\ h.wr = "ok" /\ tmp = FileOf(Encode(doc))
    /\ pre.exists /\ file = pre

\* C4: the backup directory holds one file for every write that copied the
\* catalogue there: no backup takes the name of an earlier one.
C4_BackupAccumulation == Len(backups) = copies

\* C5: a failure in the backup step (creating the backup directory or
\* copying the file) never makes the write raise.
C5_BackupFailureNonFatal ==
    h.bk \in {"mkdir_failed", "copy_failed"}
        => ~(pc = "raised" /\ err = "OSError(backup_dir)")

\* C9: the insertion adds one item to the "shortcuts" mapping it received
\* and leaves the items that were there as they were.
C9_KeyNotReused ==
    h.ins
        => /\ Len(Shortcuts(doc)) = Len(Shortcuts(loaded)) + 1
           /\ \A i \in 1..Len(Shortcuts(loaded)) :
                 Shortcuts(doc)[i] = Shortcuts(loaded)[i]

\* C11: a restart that proceeds calls stop_steam once, sleeps, then calls
\* start_steam once, in that order and nothing else, also when stop_steam
\* returned False; every stop command precedes every launch; the returned
\* flag is (stopped or started), False only when both are False, as for an
\* unknown variant.  In add_non_steam_game the coordination runs when the
\* document is loaded and the entry inserted, and the write (parent
\* directory, backup, temporary file) begins only after it has returned.
C11_RestartOrdering ==
    /\ rs.pc = "stop" => calls = <<>>
    /\ rs.pc = "sleep" => calls = <<"stop">>
    /\ rs.pc = "start" => calls = <<"stop", "sleep">>
    /\ (rs.pc = "done" /\ RestartProceeds(rs.running, rs.allow, rs.asked, rs.ans))
          => /\ calls = <<"stop", "sleep", "start">>
             /\ rs.performed = (rs.stopped \/ rs.started)
             /\ (rs.variant = "unknown" => ~rs.performed)
             /\ \E k \in 0..Len(StopCommands(rs.variant)) :
                   cmds = SubSeq(StopCommands(rs.variant), 1, k) \o rs.tried
    /\ (rs.pc # "idle" \/ calls # <<>> \/ cmds # <<>>)
          => /\ pc = "restarting"
             /\ h.load # "none" /\ h.ins /\ h.rst = "none"
             /\ doc = InsertShortcut(loaded, EntryFor(ExePath, arg.name, <<>>))
             /\ h.bk = "none" /\ ~h.temp /\ tmp = Absent /\ file = pre
    /\ (h.bk # "none" \/ h.temp \/ pc \in {"aw_mkdir", "aw_backup", "aw_temp"})
          => h.rst \in {"noop", "cycled"}
    /\ h.rst = "noop" => ~restarted

\* Inside add_non_steam_game: stop_steam returned False, start_steam was
\* called all the same and launched the client; the flag is True.
C11_Witness ==
    /\ pc = "restarting" /\ rs.pc = "done"
    /\ ~rs.stopped /\ rs.started /\ rs.performed
    /\ calls = <<"stop", "sleep", "start">>
    /\ h.ins /\ h.bk = "none"

\* C12: an operation that replaced an existing catalogue had loaded it, and
\* every entry the file held before the call is in the file after it.
C12_ExistingCatalogueKept ==
    (pc = "done" /\ pre.exists)
        => /\ h.load = "ok"
           /\ Decode(pre.data).ok
                 => \A old \in Range(Shortcuts(Decode(pre.data).m)) :
                       \E new \in Range(Shortcuts(Decode(file.data).m)) :
                          new.v = old.v

\* ------------------------------------------------------------------------
\* SpecClient: one add_non_steam_game beside the Steam client, a process of
\* its own that rewrites the catalogue whenever it runs.
\* ------------------------------------------------------------------------
\* The entries the client may add: "/c/x" under the names "S" and "T".
ClientEntries == {EntryFor(<<47, 99, 47, 120>>, name, <<>>) : name \in {<<83>>, <<84>>}}

\* The entries (values) of the "shortcuts" mapping of a catalogue file.
FileEntries(f) ==
    IF f.exists /\ Decode(f.data).ok
    THEN {it.v : it \in Range(Shortcuts(Decode(f.data).m))}
    ELSE {}

\* The first key "0", "1", ... that the mapping m does not hold.
FreeKey(m) ==
    StrNat(CHOOSE n \in 0..Len(m) :
              /\ StrNat(n) \notin Keys(m)
              /\ \A j \in 0..(n - 1) : StrNat(j) \in Keys(m))

\* The document with the entry under a key the document does not hold.
ClientInsert(document, entry) ==
    LET d == SetDefaultEmpty(document, K_shortcuts)
    IN  SetItem(d, K_shortcuts,
                VMap(Append(Get(d, K_shortcuts).m,
                            Item(FreeKey(Get(d, K_shortcuts).m), VMap(entry)))))

\* add_non_steam_game holds a loaded document and has not yet replaced
\* the catalogue (lines 489-519).
InWindow == h.load # "none" /\ pc \notin {"done", "raised"}

\* The running client (also one that was told to stop and has not yet
\* exited) writes the catalogue with one more entry of its own, if the
\* catalogue holds none of them.
ClientWrite ==
    /\ client.running
    /\ ~file.exists \/ Decode(file.data).ok
    /\ \E entry \in ClientEntries :
          LET cur == IF file.exists THEN Decode(file.data).m ELSE EmptyDoc
          IN  /\ \A other \in ClientEntries : VMap(other) \notin FileEntries(file)
              /\ file' = FileOf(Encode(ClientInsert(cur, entry)))
              /\ client' = [client EXCEPT
                              !.wrote = IF InWindow THEN @ \cup {entry} ELSE @]
    /\ UNCHANGED <<idVars, coordVars, docVars, backups, tmp, copies, sameSecond,
                   opVars>>

\* Lines 312-313 beside the client: the probe reports whether it runs.
ClientRestartCall ==
    /\ AddRestartCall
    /\ rs'.running = client.running

\* Line 324 beside the client: once a stop command has run the client is
\* gone, or still on its way out.
ClientRestartStop ==
    /\ pc = "restarting"
    /\ RestartStop
    /\ client' \in {client} \cup
                   (IF cmds' # cmds THEN {[client EXCEPT !.running = FALSE]} ELSE {})
    /\ UNCHANGED <<idVars, docVars, fsVars, opVars>>

\* Lines 327-329 beside the client: a launch that succeeded runs it.
ClientRestartStart ==
    /\ pc = "restarting"
    /\ RestartStart
    /\ client' = [client EXCEPT !.running = client.running \/ rs'.started]
    /\ UNCHANGED <<idVars, docVars, fsVars, opVars>>

InitClient ==
    /\ InitIdVars /\ InitCoordVars /\ InitDocVars
    /\ file \in InitialFiles
    /\ backups = <<>> /\ sameSecond = FALSE /\ tmp = Absent /\ copies = 0
    /\ InitOpVars
    /\ client \in [running : BOOLEAN, wrote : {{}}]

NextClient ==
    \/ AddCall \/ AddImages \/ AddLoad \/ AddInsert
    \/ ClientRestartCall \/ ClientRestartStop \/ AddRestartSleep
    \/ ClientRestartStart
    \/ AddAfterRestart
    \/ AwMkdirParent \/ AwBackup \/ AwTemp \/ AwOpen
    \/ WriterFirst \/ WriterSecond \/ AwCleanup \/ AwReplace
    \/ ClientWrite

SpecClient == InitClient /\ [][NextClient]_vars

\* C13: once the operation has replaced the catalogue, every entry the
\* client wrote to the file between the operation's load and its replace
\* is in the file.
C13_NoLostUpdate ==
    pc = "done" => \A entry \in client.wrote : VMap(entry) \in FileEntries(file)

====
